---- MODULE Spec2Model ----
(***************************************************************************)
(* A model of creodias_finder/query.py: the parameter encoders             *)
(* (_parse_date, _add_time, _convert_wkt, _parse_argvalue) and the page    *)
(* loop of query().                                                        *)
(*                                                                         *)
(* Python values are records [type, v].  A str is the sequence of its      *)
(* characters, each a one-character string.                                *)
(***************************************************************************)
EXTENDS Integers, Sequences, FiniteSets, TLC

(***************************************************************************)
(* Python values                                                           *)
(***************************************************************************)
None == [type |-> "NoneType", v |-> <<>>]

PyStr(chars) == [type |-> "str", v |-> chars]

PyInt(n) == [type |-> "int", v |-> n]

PyList(items) == [type |-> "list", v |-> items]

PyTuple(items) == [type |-> "tuple", v |-> items]

\* datetime.datetime: tz is the UTC offset as isoformat() prints it, <<>> when naive
PyDatetime(y, mo, d, h, mi, s, us, tz) ==
    [type |-> "datetime",
     v |-> [year |-> y, month |-> mo, day |-> d,
            hour |-> h, minute |-> mi, second |-> s,
            microsecond |-> us, tz |-> tz]]

\* An exception raised instead of a value returned; arg is the number its
\* message is formatted with (0 when the message takes none)
RaiseWith(cls, msg, arg) ==
    [type |-> "exception", v |-> [cls |-> cls, msg |-> msg, arg |-> arg]]

Raise(cls, msg) == RaiseWith(cls, msg, 0)

Raised(x) == x.type = "exception"

\* Python truthiness, as used by "if collection:", "if start_date:", ...
Truthy(x) ==
    CASE x.type = "NoneType" -> FALSE
      [] x.type = "str" -> Len(x.v) > 0
      [] x.type = "int" -> x.v # 0
      [] x.type = "list" -> Len(x.v) > 0
      [] x.type = "tuple" -> Len(x.v) > 0
      [] OTHER -> TRUE

\* isinstance(value, string_types)
IsString(x) == x.type = "str"

(***************************************************************************)
(* Characters                                                              *)
(***************************************************************************)
DigitChars == <<"0", "1", "2", "3", "4", "5", "6", "7", "8", "9">>

IsDigit(c) == \E i \in 1..10 : DigitChars[i] = c

\* The characters the regex class \s and str.strip() treat as whitespace.
Whitespace == {" ", "\t", "\n"}

IsSpace(c) == c \in Whitespace

Range(s) == {s[i] : i \in 1..Len(s)}

\* s[i:] of Python, with the 1-based index i
Drop(s, i) == SubSeq(s, i, Len(s))

\* s.startswith(p) at position i (1-based)
StartsAt(s, p, i) ==
    /\ i + Len(p) - 1 <= Len(s)
    /\ \A k \in 1..Len(p) : s[i + k - 1] = p[k]

\* The character at position i, "" past either end
At(s, i) == IF i \in 1..Len(s) THEN s[i] ELSE ""

DigitVal(c) == CHOOSE n \in 0..9 : DigitChars[n + 1] = c

\* The number written by the two digits at positions i, i+1
Num2(s, i) == 10 * DigitVal(s[i]) + DigitVal(s[i + 1])

Num4(s, i) == 100 * Num2(s, i) + Num2(s, i + 2)

\* "%02d" % n and "%04d" % n
Pad2(n) == <<DigitChars[((n \div 10) % 10) + 1], DigitChars[(n % 10) + 1]>>

Pad4(n) == Pad2(n \div 100) \o Pad2(n % 100)

Pad6(n) == Pad2(n \div 10000) \o Pad4(n % 10000)

(***************************************************************************)
(* _parse_date: the pattern                                                *)
(*                                                                         *)
(* The pattern text is written as an f-string, so Python replaces each     *)
(* "{4}" and "{2}" by the text "4" and "2" before re.compile sees it: the  *)
(* compiled regex reads "[0-9]4-[0-9]2-[0-9]2(T[0-9]2:...)?$", one digit   *)
(* followed by the literal character.  An atom is "\\d" for the class      *)
(* [0-9] or a literal character.                                           *)
(***************************************************************************)
\* "[0-9]{n}" as the compiled regex reads it after f-string interpolation
FStringQuant(n) == <<"\\d", DigitChars[n + 1]>>

\* "[0-9]{n}" as a regex quantifier: n digits
RegexQuant(n) == [i \in 1..n |-> "\\d"]

\* The code's reading of "[0-9]{n}"
Quant(n) == FStringQuant(n)

\* The atoms match s from position i on
MatchAtoms(s, i, atoms) ==
    /\ i + Len(atoms) - 1 <= Len(s)
    /\ \A k \in 1..Len(atoms) :
          IF atoms[k] = "\\d" THEN IsDigit(s[i + k - 1])
                              ELSE s[i + k - 1] = atoms[k]

\* "$": the end of the string, or just before a newline that ends it
AtEnd(s, i) == i = Len(s) + 1 \/ (i = Len(s) /\ s[i] = "\n")

\* "(|Z|[\+\-][0-9]{2}:[0-9]{2})" followed by "$"; q[n] is the reading of
\* "[0-9]{n}"
MatchZone(s, i, q) ==
    LET off == q[2] \o <<":">> \o q[2]
    IN  \/ AtEnd(s, i)
        \/ At(s, i) = "Z" /\ AtEnd(s, i + 1)
        \/ /\ At(s, i) \in {"+", "-"}
           /\ MatchAtoms(s, i + 1, off)
           /\ AtEnd(s, i + 1 + Len(off))

\* "(\.[0-9]+)?" followed by the zone
MatchFraction(s, i, q) ==
    \/ MatchZone(s, i, q)
    \/ /\ At(s, i) = "."
       /\ \E j \in (i + 2)..(Len(s) + 1) :
             /\ \A k \in (i + 1)..(j - 1) : IsDigit(s[k])
             /\ MatchZone(s, j, q)

\* The whole pattern, anchored at the start by pattern.match
MatchPattern(s, q) ==
    LET date == q[4] \o <<"-">> \o q[2] \o <<"-">> \o q[2]
        time == <<"T">> \o q[2] \o <<":">> \o q[2] \o <<":">> \o q[2]
        p == 1 + Len(date)
    IN  /\ MatchAtoms(s, 1, date)
        /\ \/ AtEnd(s, p)
           \/ /\ MatchAtoms(s, p, time)
              /\ MatchFraction(s, p + Len(time), q)

\* pattern.match(date) of _parse_date
PatternMatches(s) == MatchPattern(s, [n \in {2, 4} |-> Quant(n)])

\* The pattern the regex text was written to be: YYYY-MM-DD[THH:MM:SS[.f][zone]]
IsoShaped(s) == MatchPattern(s, [n \in {2, 4} |-> RegexQuant(n)])


(***************************************************************************)
(* dateutil.parser.parse, datetime.isoformat, _parse_date, _add_time       *)
(***************************************************************************)
DaysIn(y, m) ==
    IF m \in {4, 6, 9, 11} THEN 30
    ELSE IF m # 2 THEN 31
    ELSE IF (y % 4 = 0 /\ y % 100 # 0) \/ y % 400 = 0 THEN 29
    ELSE 28

\* The end of the run of digits that starts at position i
RECURSIVE DigitsEnd(_, _)
DigitsEnd(s, i) == IF IsDigit(At(s, i)) THEN DigitsEnd(s, i + 1) ELSE i

\* The microseconds a fraction's digits stand for: its first six digits
MicroOf(digs) ==
    LET d == [i \in 1..6 |-> IF i <= Len(digs) THEN DigitVal(digs[i]) ELSE 0]
    IN  d[1] * 100000 + d[2] * 10000 + d[3] * 1000 + d[4] * 100 + d[5] * 10 + d[6]

\* The fields of an ISO-shaped string, read by position
IsoFields(s) ==
    LET hasTime == At(s, 11) = "T"
        fracEnd == IF At(s, 20) = "." THEN DigitsEnd(s, 21) ELSE 20
        rest == IF hasTime THEN Drop(s, fracEnd) ELSE <<>>
        zone == IF rest # <<>> /\ rest[Len(rest)] = "\n"
                THEN SubSeq(rest, 1, Len(rest) - 1) ELSE rest
    IN  [year |-> Num4(s, 1), month |-> Num2(s, 6), day |-> Num2(s, 9),
         hour |-> IF hasTime THEN Num2(s, 12) ELSE 0,
         minute |-> IF hasTime THEN Num2(s, 15) ELSE 0,
         second |-> IF hasTime THEN Num2(s, 18) ELSE 0,
         microsecond |-> IF hasTime /\ fracEnd > 20
                         THEN MicroOf(SubSeq(s, 21, fracEnd - 1)) ELSE 0,
         tz |-> IF zone = <<"Z">> THEN <<"+", "0", "0", ":", "0", "0">> ELSE zone]

ValidFields(f) ==
    /\ f.year >= 1
    /\ f.month \in 1..12
    /\ f.day \in 1..DaysIn(f.year, f.month)
    /\ f.hour <= 23 /\ f.minute <= 59 /\ f.second <= 59

\* What the parser may do with a string that is not an ISO date: raise its
\* ParserError (a ValueError) or guess some date.
ParserGuesses ==
    {Raise("ParserError", "Unknown string format"),
     PyDatetime(2012, 2, 14, 0, 0, 0, 0, <<>>)}

\* dateutil.parser.parse(s): the set of its possible outcomes
DateutilParse(s) ==
    IF IsoShaped(s) /\ ValidFields(IsoFields(s))
    THEN {[type |-> "datetime", v |-> IsoFields(s)]}
    ELSE ParserGuesses

\* datetime.isoformat()
IsoFormat(dt) ==
    LET d == dt.v
    IN  Pad4(d.year) \o <<"-">> \o Pad2(d.month) \o <<"-">> \o Pad2(d.day)
        \o <<"T">> \o Pad2(d.hour) \o <<":">> \o Pad2(d.minute)
        \o <<":">> \o Pad2(d.second)
        \o (IF d.microsecond # 0 THEN <<".">> \o Pad6(d.microsecond) ELSE <<>>)
        \o d.tz

DateFormatError ==
    Raise("ValueError",
          "Date {date} is not in a valid format. Use Datetime object or iso string")

\* The outcomes of the parser that _parse_date(date) may see: the parser is
\* called only when date is a str the pattern matches
ParseOutcomes(date) ==
    IF date.type = "str" /\ PatternMatches(date.v)
    THEN DateutilParse(date.v) ELSE {None}

\* _parse_date(date), parsed being the outcome of dateutil.parser.parse
\* when it is called
ParseDate(date, parsed) ==
    IF date.type = "datetime" THEN date
    ELSE IF date.type # "str"
    THEN Raise("TypeError", "expected string or bytes-like object")
    ELSE IF PatternMatches(date.v) THEN parsed
    ELSE DateFormatError

\* _add_time(date): adding 23:59:59 to midnight stays within the day
AddTime(date) ==
    IF date.v.hour = 0 /\ date.v.minute = 0 /\ date.v.second = 0
    THEN [date EXCEPT !.v.hour = 23, !.v.minute = 59, !.v.second = 59]
    ELSE date


(***************************************************************************)
(* _convert_wkt                                                            *)
(***************************************************************************)
\* str.replace(old, new, count) for a non-empty old: the first count
\* occurrences, left to right, not overlapping; every one when count < 0
RECURSIVE Replace(_, _, _, _)
Replace(s, old, new, count) ==
    IF s = <<>> \/ count = 0 THEN s
    ELSE IF StartsAt(s, old, 1)
    THEN new \o Replace(Drop(s, Len(old) + 1), old, new, count - 1)
    ELSE <<s[1]>> \o Replace(Tail(s), old, new, count)

\* geometry.replace(", ", ",")
DropSpaceAfterComma(g) == Replace(g, <<",", " ">>, <<",">>, -1)

\* A variant of DropFirstSpace that leaves the space after the keyword
KeepFirstSpace(g) == g

\* .replace(" ", "", 1)
DropFirstSpace(g) == Replace(g, <<" ">>, <<>>, 1)

\* .replace(" ", "+")
SpacesToPlus(g) == Replace(g, <<" ">>, <<"+">>, -1)

\* _convert_wkt(geometry): a value without a str's replace() raises inside
\* the try block, and the handler raises the ValueError
ConvertWkt(geometry) ==
    IF geometry.type = "str"
    THEN PyStr(SpacesToPlus(DropFirstSpace(DropSpaceAfterComma(geometry.v))))
    ELSE Raise("ValueError", "Geometry must be in well-known text format")

(***************************************************************************)
(* _parse_argvalue                                                         *)
(***************************************************************************)
RECURSIVE LStrip(_)
LStrip(s) == IF s # <<>> /\ IsSpace(s[1]) THEN LStrip(Tail(s)) ELSE s

RECURSIVE RStrip(_)
RStrip(s) ==
    IF s # <<>> /\ IsSpace(s[Len(s)]) THEN RStrip(SubSeq(s, 1, Len(s) - 1)) ELSE s

\* value.strip()
Strip(s) == RStrip(LStrip(s))

\* The pairs "[]", "{}", "//", "()"
Brackets == {<<"[", "]">>, <<"{", "}">>, <<"/", "/">>, <<"(", ")">>}

\* any(value.startswith(s[0]) and value.endswith(s[1]) for s in ...)
Bracketed(s) ==
    \E b \in Brackets : s # <<>> /\ s[1] = b[1] /\ s[Len(s)] = b[2]

\* re.M, which the call passes in the position of re.sub's count argument
ReM == 8

\* The count argument re.sub receives
SubCount == ReM

\* The replacement template r"\ ": a backslash and a space (an escape re
\* does not know is left as written)
Replacement == <<"\\", " ">>

\* What replaces the whitespace character c
Escaped(c) == Replacement

\* re.sub(r"\s", r"\ ", s, count): the first count matches, every match
\* when count is 0
RECURSIVE ReSub(_, _)
ReSub(s, left) ==
    IF s = <<>> \/ left = 0 THEN s
    ELSE IF IsSpace(s[1]) THEN Escaped(s[1]) \o ReSub(Tail(s), left - 1)
    ELSE <<s[1]>> \o ReSub(Tail(s), left)

EscapeWhitespace(s) == ReSub(s, IF SubCount = 0 THEN -1 ELSE SubCount)

\* str(n) for n >= 0
RECURSIVE IntStr(_)
IntStr(n) ==
    IF n < 10 THEN <<DigitChars[n + 1]>>
    ELSE IntStr(n \div 10) \o <<DigitChars[(n % 10) + 1]>>

\* "{}".format(x) for a str or an int
Format(x) == IF x.type = "int" THEN IntStr(x.v) ELSE x.v

\* A variant of ParseArgvalue that formats what it should reject
ParseArgvalueLenient(value) ==
    IF IsString(value) THEN PyStr(Strip(value.v))
    ELSE IF value.type \in {"list", "tuple"} /\ Len(value.v) = 2
    THEN PyStr(<<"[">> \o Format(value.v[1]) \o <<",">>
               \o Format(value.v[2]) \o <<"]">>)
    ELSE PyStr(<<>>)

\* _parse_argvalue(value)
ParseArgvalue(value) ==
    IF IsString(value)
    THEN LET t == Strip(value.v)
         IN  PyStr(IF ~Bracketed(t) THEN EscapeWhitespace(t) ELSE t)
    ELSE IF value.type \in {"list", "tuple"}
    THEN IF Len(value.v) = 2
         THEN PyStr(<<"[">> \o Format(value.v[1]) \o <<",">>
                    \o Format(value.v[2]) \o <<"]">>)
         ELSE RaiseWith("ValueError",
                        "Invalid number of elements in list. Expected 2, received {}",
                        Len(value.v))
    ELSE Raise("ValueError",
               "Additional arguments can be either string or tuple/list of 2 values")


(***************************************************************************)
(* query: building the URL                                                 *)
(*                                                                         *)
(* The URL is kept as the collection segment joined to API_URL and the     *)
(* sequence of the "&key=value" fragments appended to it, in the order of  *)
(* the appends.                                                            *)
(***************************************************************************)
MAX_RECORDS == 1000

KeyStartDate == <<"s", "t", "a", "r", "t", "D", "a", "t", "e">>

KeyCompletionDate ==
    <<"c", "o", "m", "p", "l", "e", "t", "i", "o", "n", "D", "a", "t", "e">>

KeyGeometry == <<"g", "e", "o", "m", "e", "t", "r", "y">>

KeyMaxRecords == <<"m", "a", "x", "R", "e", "c", "o", "r", "d", "s">>

\* f'&{key}={value}'
Frag(key, value) == [key |-> key, value |-> value]

\* The letters in the order of their code points, which is the order in
\* which Python compares the characters of two str
CodePoints ==
    <<"A", "B", "C", "D", "E", "F", "G", "H", "I", "J", "K", "L", "M",
      "N", "O", "P", "Q", "R", "S", "T", "U", "V", "W", "X", "Y", "Z",
      "a", "b", "c", "d", "e", "f", "g", "h", "i", "j", "k", "l", "m",
      "n", "o", "p", "q", "r", "s", "t", "u", "v", "w", "x", "y", "z">>

Ord(c) == CHOOSE i \in 1..Len(CodePoints) : CodePoints[i] = c

\* a < b for two str
RECURSIVE StrLess(_, _)
StrLess(a, b) ==
    IF b = <<>> THEN FALSE
    ELSE IF a = <<>> THEN TRUE
    ELSE IF a[1] # b[1] THEN Ord(a[1]) < Ord(b[1])
    ELSE StrLess(Tail(a), Tail(b))

\* The keys of sorted(kwargs.items()): ascending, the keys of a dict being distinct
RECURSIVE SortedKeys(_)
SortedKeys(keys) ==
    IF keys = {} THEN <<>>
    ELSE LET m == CHOOSE k \in keys : \A j \in keys \ {k} : StrLess(k, j)
         IN  <<m>> \o SortedKeys(keys \ {m})

\* A variant of FilterOrder that visits the keys without sorting them
\* ascending: here in the descending order
UnsortedOrder(kw) ==
    LET up == SortedKeys(DOMAIN kw)
    IN  [i \in 1..Len(up) |-> up[Len(up) + 1 - i]]

\* The order in which the loop over the extra filters visits the keys
FilterOrder(kw) == SortedKeys(DOMAIN kw)

\* A building step's result: the exception raised so far (None when none)
\* and the fragments appended
Built(exc, base, frags) == [exc |-> exc, base |-> base, frags |-> frags]

\* url = urljoin(API_URL, collection) for a plain collection name, then
\* url += '/search.json?'
BasePart(collection) ==
    Built(None, IF Truthy(collection) THEN collection.v ELSE <<>>, <<>>)

\* if start_date: ... url += f'&startDate={start_date.isoformat()}'
StartPart(r, start_date, parsed) ==
    IF Raised(r.exc) \/ ~Truthy(start_date) THEN r
    ELSE LET d == ParseDate(start_date, parsed)
         IN  IF Raised(d) THEN [r EXCEPT !.exc = d]
             ELSE [r EXCEPT !.frags = Append(@, Frag(KeyStartDate, IsoFormat(d)))]

\* if end_date: ... url += f'&completionDate={end_date.isoformat()}'
EndPart(r, end_date, parsed) ==
    IF Raised(r.exc) \/ ~Truthy(end_date) THEN r
    ELSE LET d == ParseDate(end_date, parsed)
         IN  IF Raised(d) THEN [r EXCEPT !.exc = d]
             ELSE [r EXCEPT !.frags =
                       Append(@, Frag(KeyCompletionDate, IsoFormat(AddTime(d))))]

\* if geometry: ... url += f'&geometry={geometry}'
GeometryPart(r, geometry) ==
    IF Raised(r.exc) \/ ~Truthy(geometry) THEN r
    ELSE LET g == ConvertWkt(geometry)
         IN  IF Raised(g) THEN [r EXCEPT !.exc = g]
             ELSE [r EXCEPT !.frags = Append(@, Frag(KeyGeometry, g.v))]

\* for attr, value in sorted(kwargs.items()): url += f'&{attr}={value}'
RECURSIVE FiltersPart(_, _, _)
FiltersPart(r, kw, keys) ==
    IF Raised(r.exc) \/ keys = <<>> THEN r
    ELSE LET v == ParseArgvalue(kw[Head(keys)])
         IN  IF Raised(v) THEN [r EXCEPT !.exc = v]
             ELSE FiltersPart([r EXCEPT !.frags = Append(@, Frag(Head(keys), v.v))],
                              kw, Tail(keys))

\* url += f'&maxRecords={MAX_RECORDS}'
MaxRecordsPart(r) ==
    IF Raised(r.exc) THEN r
    ELSE [r EXCEPT !.frags = Append(@, Frag(KeyMaxRecords, IntStr(MAX_RECORDS)))]

\* Lines 45-63 of query, in the order of the code
BuildUrl(collection, start_date, end_date, geometry, kw, ps, pe) ==
    LET r1 == StartPart(BasePart(collection), start_date, ps)
        r2 == EndPart(r1, end_date, pe)
        r3 == GeometryPart(r2, geometry)
        r4 == FiltersPart(r3, kw, FilterOrder(kw))
    IN  MaxRecordsPart(r4)


(***************************************************************************)
(* query: the page loop                                                    *)
(***************************************************************************)
\* range(1000) of the page loop
LoopRange == 1000

\* The page index of "if page == 999"
LastPageIndex == 999

\* A variant of RaiseForStatus for a call that does not check the status
NeverRaises(st) == FALSE

\* Response.raise_for_status() raises HTTPError for a 4xx or 5xx status
RaiseForStatus(st) == 400 <= st /\ st < 600

\* A variant of IsLastPage that stops on an empty features list
NoFeatures(d) == d.v.features = <<>>

\* if data['properties']['itemsPerPage'] == 0: break
IsLastPage(d) == d.v.itemsPerPage = 0

\* if page == 999
TooLarge(p) == p = LastPageIndex

\* A variant of PageNumber that numbers the pages from 0
ZeroBased(p) == p

\* f'&page={page + 1}': the page number of the loop index p
PageNumber(p) == p + 1

\* RequestError(*args): __init__(self, message, errors) takes both
NewRequestError(args) ==
    IF Len(args) = 2 THEN Raise("RequestError", args[1])
    ELSE Raise("TypeError",
               "__init__() missing 1 required positional argument: 'errors'")

\* raise RequestError(f'The query is too large.')
TooLargeError == NewRequestError(<<"The query is too large.">>)

\* A variant of Store that keeps the record an id already has
StoreIfAbsent(qr, f) ==
    [k \in DOMAIN qr \cup {f.id} |-> IF k \in DOMAIN qr THEN qr[k] ELSE f]

\* query_response[feature['id']] = feature
Store(qr, f) == [k \in DOMAIN qr \cup {f.id} |-> IF k = f.id THEN f ELSE qr[k]]

\* for feature in data['features']: query_response[feature['id']] = feature
RECURSIVE Merge(_, _)
Merge(qr, feats) ==
    IF feats = <<>> THEN qr ELSE Merge(Store(qr, Head(feats)), Tail(feats))

\* A decoded body with the wire contract's shape
Page(n, feats) == [type |-> "dict", v |-> [itemsPerPage |-> n, features |-> feats]]

\* A body that response.json() cannot decode
NotJson == [type |-> "text", v |-> <<>>]

EmptyDict == [k \in {} |-> None]

(***************************************************************************)
(* The inputs of the model                                                 *)
(***************************************************************************)
\* The revisions of a feature record that the pages may carry
MaxRev == 2

Feature(id, rev) == [id |-> id, rev |-> rev]

\* The features lists of the pages: none, one record of "a" in any of its
\* revisions, and two records
FeatureLists ==
    {<<>>} \cup {<<Feature("a", r)>> : r \in 1..MaxRev}
    \cup {<<Feature("b", 1), Feature("a", 1)>>}

\* A success, a status that is neither a success nor an error, an error
Statuses == {200, 304, 500}

Bodies == {NotJson} \cup {Page(n, fl) : n \in {0, 1}, fl \in FeatureLists}

Midnight == PyDatetime(2020, 1, 31, 0, 0, 0, 0, <<>>)

Noon == PyDatetime(2020, 2, 29, 12, 30, 0, 0, <<>>)

IsoDay == PyStr(<<"2", "0", "2", "0", "-", "0", "1", "-", "3", "1">>)

IsoZulu ==
    PyStr(<<"2", "0", "2", "0", "-", "0", "1", "-", "3", "1", "T",
            "1", "2", ":", "3", "0", ":", "0", "0", "Z">>)

\* A string the compiled pattern matches
OddDay == PyStr(<<"1", "4", "-", "0", "2", "-", "1", "2">>)

NotADate == PyStr(<<"n", "o", "w">>)

Polygon ==
    PyStr(<<"P", "O", "L", "Y", "G", "O", "N", " ", "(", "(", "1", " ", "2",
            ",", " ", "3", " ", "4", ")", ")">>)

Sentinel == PyStr(<<"S", "1">>)

KeyA == <<"a">>

KeyB == <<"b">>

KeyAb == <<"a", "b">>

KeyUpper == <<"B">>

Words == PyStr(<<"x", " ", "y">>)

Pair == PyTuple(<<PyInt(1), PyInt(20)>>)

NoFilters == [k \in {} |-> None]

\* productType-like filters: a str and three ranges
FourFilters == [k \in {KeyB, KeyA, KeyAb, KeyUpper} |-> IF k = KeyA THEN Words ELSE Pair]

TwoFilters == [k \in {KeyB, KeyA} |-> IF k = KeyA THEN Pair ELSE Words]

ShortList == [k \in {KeyA} |-> PyList(<<PyInt(1)>>)]

EmptyList == [k \in {KeyA, KeyB} |-> IF k = KeyA THEN Words ELSE PyList(<<>>)]

LongTuple == [k \in {KeyB} |-> PyTuple(<<PyInt(1), PyInt(2), PyInt(3)>>)]

IntFilter == [k \in {KeyA, KeyB} |-> IF k = KeyB THEN PyInt(7) ELSE Pair]

NoneFilter == [k \in {KeyAb} |-> None]

Call(c, s, e, g, kw) ==
    [collection |-> c, start_date |-> s, end_date |-> e, geometry |-> g, kwargs |-> kw]

Collections == {None, Sentinel}

StartDates == {None, Midnight, Noon, IsoDay, OddDay, NotADate, PyStr(<<>>), PyInt(2020)}

EndDates == {None, Midnight, Noon, IsoZulu, OddDay, NotADate}

Geometries == {None, Polygon, PyStr(<<>>), PyInt(5), PyInt(0), PyList(<<>>), Midnight}

KwargsInputs ==
    {NoFilters, FourFilters, TwoFilters, ShortList, EmptyList, LongTuple,
     IntFilter, NoneFilter}

\* Every combination of the parameter values
AllCalls ==
    {Call(c, s, e, g, kw) : c \in Collections, s \in StartDates, e \in EndDates,
                            g \in Geometries, kw \in KwargsInputs}

\* The calls whose pages the model follows
PagedCalls ==
    {Call(None, None, None, None, NoFilters),
     Call(Sentinel, Midnight, Midnight, Polygon, FourFilters),
     Call(None, OddDay, Noon, PyInt(0), TwoFilters),
     Call(None, PyStr(<<>>), None, PyList(<<>>), NoFilters)}

\* The calls of the query model: the paged calls, and every combination
\* with a date string, a geometry or a filter value that the call rejects
\* while it builds the URL
Calls ==
    PagedCalls
    \cup {c \in AllCalls :
             \/ c.start_date \in {IsoDay, NotADate, PyInt(2020)}
             \/ c.end_date \in {IsoZulu, NotADate}
             \/ c.geometry \in {PyInt(5), Midnight}
             \/ c.kwargs \in {ShortList, EmptyList, LongTuple, IntFilter, NoneFilter}}

(***************************************************************************)
(* query as a state machine                                                *)
(***************************************************************************)
VARIABLES
    pc,             \* query: "Building", "Paging", "Waiting", "Done", "Aborted"
                    \* an encoder: "Call", "Returned", "Raised"
    collection, start_date, end_date, geometry, kwargs,   \* the arguments
    url,            \* the URL built, None before
    page,           \* the loop variable
    url_page,       \* the URL of the last request: url and its page number
    inflight,       \* the requests sent and not yet answered
    nrequests,      \* the requests sent
    response,       \* the last response: its status code and its body
    data,           \* the last body that response.json() decoded
    query_response, \* the mapping being filled
    error,          \* the exception the call raised, None when none
    returned,       \* the mapping returned to the caller, None when none
    fn, arg, out    \* an encoder called on its own, its argument, its outcome

args == <<collection, start_date, end_date, geometry, kwargs>>

encoder == <<fn, arg, out>>

vars == <<pc, args, url, page, url_page, inflight, nrequests, response, data,
          query_response, error, returned, encoder>>

Response(st, body) == [type |-> "response", v |-> [status |-> st, body |-> body]]

Url(base, frags) == [type |-> "url", v |-> [base |-> base, frags |-> frags]]

\* url + f'&page={n}'
UrlPage(u, n) == [type |-> "url_page", v |-> [url |-> u, page |-> n]]

Dict(m) == [type |-> "dict", v |-> m]

\* The state of a call of query before its first line, for the calls in cs
Called(cs) ==
    /\ \E c \in cs :
          /\ collection = c.collection
          /\ start_date = c.start_date
          /\ end_date = c.end_date
          /\ geometry = c.geometry
          /\ kwargs = c.kwargs
    /\ pc = "Building"
    /\ url = None
    /\ page = 0
    /\ url_page = None
    /\ inflight = 0
    /\ nrequests = 0
    /\ response = None
    /\ data = None
    /\ query_response = EmptyDict
    /\ error = None
    /\ returned = None
    /\ fn = "query" /\ arg = None /\ out = None

Init == Called(Calls)

\* Lines 45-66: the URL is built, or a parameter is rejected
Build ==
    /\ pc = "Building"
    /\ \E ps \in ParseOutcomes(start_date), pe \in ParseOutcomes(end_date) :
          LET r == BuildUrl(collection, start_date, end_date, geometry, kwargs, ps, pe)
          IN  IF Raised(r.exc)
              THEN /\ pc' = "Aborted"
                   /\ error' = r.exc
                   /\ url' = url
              ELSE /\ pc' = "Paging"
                   /\ error' = error
                   /\ url' = Url(r.base, r.frags)
    /\ query_response' = EmptyDict
    /\ UNCHANGED <<args, page, url_page, inflight, nrequests, response, data,
                   returned, encoder>>

\* Lines 68-69: url_page = url + f'&page={page + 1}'; requests.get(url_page)
SendRequest ==
    /\ pc = "Paging"
    /\ pc' = "Waiting"
    /\ url_page' = UrlPage(url, PageNumber(page))
    /\ inflight' = inflight + 1
    /\ nrequests' = nrequests + 1
    /\ UNCHANGED <<args, url, page, response, data, query_response, error,
                   returned, encoder>>

\* Lines 69-78: the response arrives and the iteration runs to its end
Receive ==
    /\ pc = "Waiting"
    /\ \E st \in Statuses, body \in Bodies :
          /\ response' = Response(st, body)
          /\ inflight' = inflight - 1
          /\ IF RaiseForStatus(st)
             THEN /\ pc' = "Aborted"
                  /\ error' = Raise("HTTPError", "raise_for_status")
                  /\ UNCHANGED <<data, page, query_response, returned>>
             ELSE IF body = NotJson
             THEN /\ pc' = "Aborted"
                  /\ error' = Raise("JSONDecodeError", "response.json")
                  /\ UNCHANGED <<data, page, query_response, returned>>
             ELSE IF IsLastPage(body)
             THEN /\ pc' = "Done"
                  /\ data' = body
                  /\ returned' = Dict(query_response)
                  /\ UNCHANGED <<page, query_response, error>>
             ELSE IF TooLarge(page)
             THEN /\ pc' = "Aborted"
                  /\ data' = body
                  /\ error' = TooLargeError
                  /\ UNCHANGED <<page, query_response, returned>>
             ELSE /\ data' = body
                  /\ query_response' = Merge(query_response, body.v.features)
                  /\ error' = error
                  /\ IF page + 1 < LoopRange
                     THEN /\ pc' = "Paging"
                          /\ page' = page + 1
                          /\ returned' = returned
                     ELSE /\ pc' = "Done"
                          /\ page' = page
                          /\ returned' = Dict(Merge(query_response, body.v.features))
    /\ UNCHANGED <<args, url, url_page, nrequests, encoder>>

Next == Build \/ SendRequest \/ Receive

\* A call of query, its pages followed
Spec == Init /\ [][Next]_vars

(***************************************************************************)
(* The URL building of query alone, for every combination of parameters    *)
(***************************************************************************)
InitBuild == Called(AllCalls)

NextBuild == Build

SpecBuild == InitBuild /\ [][NextBuild]_vars


(***************************************************************************)
(* The encoders called on their own                                        *)
(***************************************************************************)
\* The date part of the date strings tried
DateParts ==
    {<<"2", "0", "2", "0", "-", "0", "1", "-", "3", "1">>,
     <<"1", "9", "9", "9", "-", "1", "2", "-", "0", "2">>,
     <<"2", "0", "2", "0", "-", "0", "2", "-", "3", "0">>,
     <<"1", "4", "-", "0", "2", "-", "1", "2">>,
     <<"9", "4", "-", "1", "2", "-", "2", "2">>,
     <<"0", "4", "-", "3", "2", "-", "5", "2">>,
     <<"2", "0", "2", "0", "-", "1", "-", "3", "1">>,
     <<"2", "0", "2", "0", "0", "1", "3", "1">>,
     <<"3", "1", "-", "0", "1", "-", "2", "0", "2", "0">>, <<>>}
\* What follows the date part
TimeParts ==
    {<<>>, <<"T", "1", "2", ":", "3", "0", ":", "0", "0">>,
     <<"T", "1", "2", ":", "3", "0", ":", "0", "0", "Z">>,
     <<"T", "1", "2", ":", "3", "0", ":", "0", "0", ".", "5">>,
     <<"T", "1", "2", ":", "3", "0", ":", "0", "0", ".", "1", "2", "3", "4", "5", "6", "+", "0", "1", ":", "0", "0">>,
     <<"T", "2", "3", ":", "5", "9", ":", "5", "9", "-", "0", "5", ":", "0", "0">>,
     <<"T", "1", "2", ":", "3", "2", ":", "4", "2">>,
     <<"T", "1", "2", ":", "3", "2", ":", "4", "2", "Z">>,
     <<"T", "0", "2", ":", "1", "2", ":", "2", "2", ".", "7", "+", "0", "2", ":", "4", "2">>,
     <<"T", "0", "0", ":", "0", "0", ":", "0", "0">>,
     <<"T", "1", "2", ":", "3", "0">>,
     <<" ", "1", "2", ":", "3", "0", ":", "0", "0">>, <<"\n">>, <<"Z">>}

DateStrings == {PyStr(d \o t) : d \in DateParts, t \in TimeParts}

DateInputs == DateStrings \cup {Midnight, Noon, PyInt(20200131), None}

\* The longest geometry string made of the characters below
MaxWktLen == 3

WktChars == {"P", " ", ",", "1"}

RECURSIVE StringsUpTo(_, _)
StringsUpTo(chars, n) ==
    IF n = 0 THEN {<<>>}
    ELSE LET shorter == StringsUpTo(chars, n - 1)
         IN  shorter \cup {Append(s, c) : s \in shorter, c \in chars}

WktTexts ==
    {<<"P", "O", "L", "Y", "G", "O", "N", " ", "(", "(", "1", " ", "2", ",", " ", "3", " ", "4", ")", ")">>,
     <<"P", "O", "I", "N", "T", " ", "(", "1", " ", "2", ")">>,
     <<"P", "O", "I", "N", "T", "(", "1", " ", "2", ")">>,
     <<"L", "I", "N", "E", "S", "T", "R", "I", "N", "G", " ", "(", "1", " ", "2", ",", " ", " ", "3", " ", "4", ")">>,
     <<"M", "U", "L", "T", "I", "P", "O", "I", "N", "T", " ", "(", "(", "1", " ", "2", ")", ",", " ", "(", "3", " ", "4", ")", ")">>,
     <<" ", "P", "O", "I", "N", "T", " ", "(", "1", " ", "2", ")">>}

WktInputs ==
    {PyStr(s) : s \in StringsUpTo(WktChars, MaxWktLen) \cup WktTexts}
    \cup {None, PyInt(5), PyInt(0), PyList(<<>>), Midnight}

\* The most whitespace characters between the words of a filter value
MaxSpaces == 10

\* n + 1 words "w" with the whitespace character c between them
RECURSIVE Spaced(_, _)
Spaced(n, c) == IF n = 0 THEN <<"w">> ELSE Spaced(n - 1, c) \o <<c, "w">>

ArgTexts ==
    {<<>>, <<" ", " ">>, <<" ", "x", " ">>, <<"\t", "x", " ", "y", "\n">>,
     <<"x", "\t", "y">>, <<"x", "\n", "y">>, <<"x", " ", "\t", "y">>,
     <<"[", "1", " ", "T", "O", " ", "2", "]">>,
     <<"[", " ", "1", " ", ",", " ", "2", " ", "]">>,
     <<" ", "(", "a", " ", "b", ")", " ">>, <<"/", "a", " ", "b", "/">>,
     <<"{", "a", " ", "b", "}">>, <<"[">>, <<"/">>, <<"[", "a", " ", "b">>,
     <<"a", " ", "b", "]">>, <<"(", "a", " ", "b", "]">>,
     <<"L", "1", "G", "T">>, <<"x", " ", " ", "y">>}

ArgInputs ==
    {PyStr(Spaced(n, c)) : n \in 0..MaxSpaces, c \in Whitespace}
    \cup {PyStr(s) : s \in ArgTexts}
    \cup {Pair, PyList(<<PyInt(0), PyStr(<<"x", " ", "y">>)>>), PyList(<<>>),
          PyList(<<PyInt(1)>>), PyTuple(<<PyInt(1), PyInt(2), PyInt(3)>>),
          PyInt(7), None, Midnight}

EncoderCalls ==
    {<<"_parse_date", x>> : x \in DateInputs}
    \cup {<<"_add_time", x>> : x \in {Midnight, Noon,
                PyDatetime(2020, 1, 31, 0, 0, 0, 500000, <<>>),
                PyDatetime(2020, 1, 31, 23, 59, 59, 0, <<>>),
                PyDatetime(2020, 1, 31, 0, 0, 1, 0, <<>>),
                PyDatetime(2020, 1, 31, 0, 7, 0, 0, <<>>)}}
    \cup {<<"_convert_wkt", x>> : x \in WktInputs}
    \cup {<<"_parse_argvalue", x>> : x \in ArgInputs}

\* An encoder about to be called, no query running
InitEncode ==
    /\ \E c \in EncoderCalls : fn = c[1] /\ arg = c[2]
    /\ out = None
    /\ pc = "Call"
    /\ collection = None /\ start_date = None /\ end_date = None
    /\ geometry = None /\ kwargs = NoFilters
    /\ url = None
    /\ page = 0
    /\ url_page = None
    /\ inflight = 0
    /\ nrequests = 0
    /\ response = None
    /\ data = None
    /\ query_response = EmptyDict
    /\ error = None
    /\ returned = None

\* The call ends with the value r returned, or with r raised
Outcome(r) ==
    /\ pc' = IF Raised(r) THEN "Raised" ELSE "Returned"
    /\ out' = r
    /\ UNCHANGED <<args, url, page, url_page, inflight, nrequests, response,
                   data, query_response, error, returned, fn, arg>>

ParseDateCall ==
    /\ pc = "Call" /\ fn = "_parse_date"
    /\ \E parsed \in ParseOutcomes(arg) : Outcome(ParseDate(arg, parsed))

AddTimeCall ==
    /\ pc = "Call" /\ fn = "_add_time"
    /\ Outcome(AddTime(arg))

ConvertWktCall ==
    /\ pc = "Call" /\ fn = "_convert_wkt"
    /\ Outcome(ConvertWkt(arg))

ParseArgvalueCall ==
    /\ pc = "Call" /\ fn = "_parse_argvalue"
    /\ Outcome(ParseArgvalue(arg))

NextEncode == ParseDateCall \/ AddTimeCall \/ ConvertWktCall \/ ParseArgvalueCall

SpecEncode == InitEncode /\ [][NextEncode]_vars


(***************************************************************************)
(* The claims about the encoders (SpecEncode)                              *)
(***************************************************************************)
\* C1, as claimed: _parse_date accepts every date string of the form
\* YYYY-MM-DD, optionally followed by THH:MM:SS[.fraction][Z|+HH:MM|-HH:MM],
\* and returns the timestamp parsed from it instead of raising the
\* invalid-date-format error.  The code rejects every such string.
C1_IsoDateAccepted ==
    (/\ fn = "_parse_date" /\ pc # "Call"
     /\ arg.type = "str" /\ IsoShaped(arg.v) /\ ValidFields(IsoFields(arg.v)))
    => /\ pc = "Returned"
       /\ out = [type |-> "datetime", v |-> IsoFields(arg.v)]

\* The value the claim C6 describes: every whitespace character kept, with
\* one backslash before it
RECURSIVE BackslashEach(_)
BackslashEach(s) ==
    IF s = <<>> THEN s
    ELSE (IF IsSpace(s[1]) THEN <<"\\", s[1]>> ELSE <<s[1]>>) \o BackslashEach(Tail(s))

\* C6, as claimed: for every str value, _parse_argvalue trims the value,
\* returns it unchanged when the trimmed value is bracketed by [], {}, // or
\* (), and otherwise returns it with every whitespace character, however
\* many and whichever, kept and prefixed with one backslash.  The code
\* escapes only the first 8 and writes a space for each.
C6_EveryWhitespaceEscaped ==
    (fn = "_parse_argvalue" /\ pc # "Call" /\ arg.type = "str")
    => /\ pc = "Returned"
       /\ out = PyStr(IF Bracketed(Strip(arg.v)) THEN Strip(arg.v)
                      ELSE BackslashEach(Strip(arg.v)))

PolygonWithPlus ==
    PyStr(<<"P", "O", "L", "Y", "G", "O", "N", "+", "(", "(", "1", "+", "2",
            ",", "3", "+", "4", ")", ")">>)

PolygonEncoded ==
    PyStr(<<"P", "O", "L", "Y", "G", "O", "N", "(", "(", "1", "+", "2",
            ",", "3", "+", "4", ")", ")">>)

\* C7, as claimed: _convert_wkt("POLYGON ((1 2, 3 4))") returns
\* "POLYGON+((1+2,3+4))".
C7_Original ==
    (fn = "_convert_wkt" /\ pc # "Call" /\ arg = Polygon)
    => pc = "Returned" /\ out = PolygonWithPlus

\* C7, amended: _convert_wkt("POLYGON ((1 2, 3 4))") returns
\* "POLYGON((1+2,3+4))": the space after each comma and the first space left
\* (the one after the keyword) are removed, the other spaces become "+"; and
\* no str that _convert_wkt returns holds a space.
C7_Amended ==
    /\ (fn = "_convert_wkt" /\ pc # "Call" /\ arg = Polygon)
       => pc = "Returned" /\ out = PolygonEncoded
    /\ (fn = "_convert_wkt" /\ pc # "Call" /\ arg.type = "str")
       => pc = "Returned" /\ " " \notin Range(out.v)

\* C7: the call on the polygon of the claim has returned
C7_Witness == fn = "_convert_wkt" /\ pc = "Returned" /\ arg = Polygon

(***************************************************************************)
(* The claim about the URL (SpecBuild)                                     *)
(***************************************************************************)
\* The place of a fragment in the order the claim C5 gives
OriginalRank(k) ==
    CASE k = KeyStartDate -> 1
      [] k = KeyCompletionDate -> 2
      [] k = KeyGeometry -> 4
      [] k = KeyMaxRecords -> 5
      [] OTHER -> 3

\* The place of a fragment in the order of the code
AmendedRank(k) ==
    CASE k = KeyStartDate -> 1
      [] k = KeyCompletionDate -> 2
      [] k = KeyGeometry -> 3
      [] k = KeyMaxRecords -> 5
      [] OTHER -> 4

\* The fragments stand in the order of their ranks, those of equal rank
\* (the extra filters) in the ascending order of their keys, maxRecords last
InOrder(frags, rank) ==
    /\ frags # <<>> /\ frags[Len(frags)].key = KeyMaxRecords
    /\ \A i, j \in 1..Len(frags) :
          i < j => \/ rank[i] < rank[j]
                   \/ /\ rank[i] = rank[j]
                      /\ StrLess(frags[i].key, frags[j].key)

\* The parameters given (truthy) are the ones with a fragment
AllPresent(frags) ==
    LET keys == {frags[i].key : i \in 1..Len(frags)}
    IN  /\ KeyStartDate \in keys <=> Truthy(start_date)
        /\ KeyCompletionDate \in keys <=> Truthy(end_date)
        /\ KeyGeometry \in keys <=> Truthy(geometry)
        /\ keys \ {KeyStartDate, KeyCompletionDate, KeyGeometry, KeyMaxRecords}
              = DOMAIN kwargs

\* C5, as claimed: the fragments of the URL built stand in the order
\* startDate, completionDate, the extra filters sorted by key, geometry,
\* maxRecords.
C5_Original ==
    pc = "Paging"
    => InOrder(url.v.frags,
               [i \in 1..Len(url.v.frags) |-> OriginalRank(url.v.frags[i].key)])

\* C5, amended: for every combination of start_date, end_date, geometry and
\* extra filters the fragments of the URL built stand in the order
\* startDate, completionDate, geometry, the extra filters sorted by key,
\* maxRecords; each parameter given has its fragment.
C5_Amended ==
    pc = "Paging"
    => /\ InOrder(url.v.frags,
                  [i \in 1..Len(url.v.frags) |-> AmendedRank(url.v.frags[i].key)])
       /\ AllPresent(url.v.frags)

\* C5: a URL was built from both dates, a geometry and four filters
C5_Witness ==
    /\ pc = "Paging" /\ Len(url.v.frags) = 8
    /\ Truthy(start_date) /\ Truthy(end_date) /\ Truthy(geometry)


(***************************************************************************)
(* The claims about the page loop (Spec)                                   *)
(***************************************************************************)
Success == 200..299

ErrorStatus == 400..599

HttpError == Raise("HTTPError", "raise_for_status")

\* The last feature of feats with the id k
LastWith(feats, k) ==
    LET i == CHOOSE n \in 1..Len(feats) :
                 /\ feats[n].id = k
                 /\ \A m \in (n + 1)..Len(feats) : feats[m].id # k
    IN  feats[i]

Ids(feats) == {feats[i].id : i \in 1..Len(feats)}

\* The mapping after is the mapping before with the features of feats
\* written over it, the later of two features with one id winning
Overwritten(before, feats, after) ==
    /\ DOMAIN after = DOMAIN before \cup Ids(feats)
    /\ \A k \in DOMAIN after :
          after[k] = IF k \in Ids(feats) THEN LastWith(feats, k) ELSE before[k]

\* C2: when page k (k = page + 1, any of 1..1000) answers with a success
\* status and itemsPerPage = 0, the pages before it having been merged, query
\* ends Done in that step after exactly k requests, and returns the mapping
\* as it stood before page k: none of page k's features is merged, whatever
\* its features list holds.
C2_StopsOnEmptyPage ==
    /\ [][(/\ pc = "Waiting"
           /\ response'.v.status \in Success
           /\ response'.v.body.type = "dict"
           /\ response'.v.body.v.itemsPerPage = 0)
          => /\ pc' = "Done"
             /\ error' = None
             /\ nrequests' = page + 1
             /\ query_response' = query_response
             /\ returned' = Dict(query_response)]_vars
    /\ [](pc = "Done" => /\ nrequests = page + 1
                         /\ nrequests \in 1..LoopRange
                         /\ inflight = 0
                         /\ data.v.itemsPerPage = 0
                         /\ returned = Dict(query_response))

\* C2: query is Done after a second or later page whose itemsPerPage is 0
\* and whose features list holds a feature that the result does not
C2_Witness ==
    /\ pc = "Done" /\ page >= 1 /\ returned.v # EmptyDict
    /\ \E f \in Range(data.v.features) :
          f.id \notin DOMAIN returned.v \/ returned.v[f.id] # f

\* C3, as claimed: a response with a non-success status ends the call at
\* once with the HTTP error, nothing returned.
C3_Original ==
    [][(pc = "Waiting" /\ response'.v.status \notin Success)
       => pc' = "Aborted" /\ error' = HttpError /\ returned' = None]_vars

\* C3, amended: a response with a 4xx or 5xx status ends the call at once
\* with the HTTP error: no request is issued after it (no retry, no later
\* page) and no mapping is returned, the features merged before discarded.
C3_Amended ==
    /\ [][(pc = "Waiting" /\ response'.v.status \in ErrorStatus)
          => /\ pc' = "Aborted"
             /\ error' = HttpError
             /\ returned' = None
             /\ inflight' = 0
             /\ nrequests' = nrequests]_vars
    /\ [][pc = "Aborted"
          => pc' = "Aborted" /\ nrequests' = nrequests /\ returned' = None]_vars
    /\ [](pc = "Aborted" => returned = None /\ inflight = 0 /\ Raised(error))

\* C3: the call failed with the HTTP error on a later page, features merged
C3_Witness ==
    /\ pc = "Aborted" /\ error = HttpError /\ page >= 1
    /\ query_response # EmptyDict /\ returned = None

\* C4, as claimed: when pages 1..1000 all answer with a success status and
\* a nonzero itemsPerPage, query fails with the error "The query is too
\* large." of its RequestError after exactly 1000 requests, nothing
\* returned.  The code fails there with the TypeError of RequestError's
\* constructor.
C4_QueryTooLarge ==
    (/\ pc = "Aborted" /\ page = LastPageIndex
     /\ response.v.status \in Success
     /\ response.v.body.type = "dict"
     /\ response.v.body.v.itemsPerPage # 0)
    => /\ error = Raise("RequestError", "The query is too large.")
       /\ nrequests = 1000
       /\ returned = None

\* Each key of the mapping m maps to a record with that id
KeysMatch(m) == \A k \in DOMAIN m : m[k].id = k

\* C8: in every state of the page loop each key of the result mapping maps
\* to a record whose id is that key, and a page's merge leaves one entry per
\* id: the record of the page for an id the page holds (the later page's
\* record when an earlier page held the id too), the earlier record for
\* every other id.
C8_LastWriteWins ==
    /\ [](/\ KeysMatch(query_response)
          /\ returned # None => /\ KeysMatch(returned.v)
                                /\ returned.v = query_response)
    /\ [][(pc = "Waiting" /\ pc' = "Paging")
          => Overwritten(query_response, data'.v.features, query_response')]_vars

\* C8: the mapping holds the record of "b", which only a page that also
\* holds the first record of "a" carries, and a later record of "a"
C8_Witness ==
    /\ pc = "Done"
    /\ DOMAIN returned.v = {"a", "b"}
    /\ returned.v["a"].rev > 1

FailsPattern(d) == d.type = "str" /\ ~PatternMatches(d.v)

NotStringLike(g) == g # None /\ g.type # "str"

BadFilter(v) ==
    \/ v.type \in {"list", "tuple"} /\ Len(v.v) # 2
    \/ v.type \notin {"str", "list", "tuple"}

NoRequest ==
    /\ pc \in {"Building", "Aborted"}
    /\ nrequests = 0 /\ inflight = 0 /\ url_page = None
    /\ pc = "Aborted" => Raised(error) /\ url = None /\ returned = None

\* C9, as claimed: a call with a malformed parameter (a date string that
\* fails the pattern check, a geometry that is not string-like, a filter
\* value that is a list or tuple of a length other than 2 or of an
\* unsupported type) fails while the URL is built and issues no request.
C9_Original ==
    (\/ FailsPattern(start_date) \/ FailsPattern(end_date)
     \/ NotStringLike(geometry)
     \/ \E k \in DOMAIN kwargs : BadFilter(kwargs[k]))
    => NoRequest

\* C9, amended: a call with a malformed parameter that is truthy (a
\* non-empty date string that fails the pattern check, a truthy geometry
\* that is not string-like) or with a malformed filter value fails while the
\* URL is built and issues no request, whatever the other parameters are.
C9_Amended ==
    (\/ Truthy(start_date) /\ FailsPattern(start_date)
     \/ Truthy(end_date) /\ FailsPattern(end_date)
     \/ Truthy(geometry) /\ NotStringLike(geometry)
     \/ \E k \in DOMAIN kwargs : BadFilter(kwargs[k]))
    => NoRequest

\* C9: a call whose only malformed parameter is a filter value has failed
C9_Witness ==
    /\ pc = "Aborted" /\ nrequests = 0
    /\ start_date = Midnight /\ end_date = Noon /\ geometry = Polygon
    /\ kwargs = LongTuple

\* The page of a request follows the last one, goes to the URL built, and
\* is sent while no request is in flight
NextInSequence ==
    /\ nrequests' = nrequests + 1
    /\ inflight = 0
    /\ pc = "Paging"
    /\ url' = url
    /\ url_page' = UrlPage(url, nrequests + 1)

\* The last response was decoded, reported a nonzero itemsPerPage, and its
\* features are in the mapping
LastPageMerged ==
    /\ response.v.body = data
    /\ data.v.itemsPerPage # 0
    /\ \A k \in Ids(data.v.features) :
          k \in DOMAIN query_response
          /\ query_response[k] = LastWith(data.v.features, k)

\* The pages requested so far are 1..nrequests, one request at a time
Sequential ==
    /\ inflight \in {0, 1}
    /\ inflight = 1 <=> pc = "Waiting"
    /\ nrequests <= 1000
    /\ nrequests > 0 => url_page = UrlPage(url, nrequests)
    /\ pc = "Paging" => nrequests = page
    /\ pc = "Waiting" => nrequests = page + 1

\* C10, as claimed: page N+1 is requested only after page N's response was
\* received with a success status and a nonzero itemsPerPage and merged.
C10_Original ==
    [][(nrequests' # nrequests /\ nrequests >= 1)
       => response.v.status \in Success /\ LastPageMerged]_vars

\* C10, amended: the pages requested form a prefix of 1, 2, ..., 1000 with
\* no gap and no repeat: at most one request is in flight, page N+1 is
\* requested only after page N's response was received with a status that
\* is not a 4xx or 5xx one and a nonzero itemsPerPage and its features were
\* merged, every request goes to the URL built with only the page changed,
\* and no call issues more than 1000 requests.
C10_Amended ==
    /\ []Sequential
    /\ [][nrequests' # nrequests
          => /\ NextInSequence
             /\ nrequests >= 1
                => response.v.status \notin ErrorStatus /\ LastPageMerged]_vars
    /\ [][url # None => url' = url]_vars

\* C10: the thousandth page is requested
C10_Witness == pc = "Waiting" /\ nrequests = 1000 /\ url_page.v.page = 1000

====
